---- MODULE Spec2Model ----
(***************************************************************************)
(* Hydrogen bond detection of biotite (structure/hbond.py): hbond, _hbond, *)
(* _get_bonded_hydrogens, _is_hbond and hbond_frequency.                   *)
(*                                                                         *)
(* A boolean mask over the atoms is the set of atom indices where it is    *)
(* true; np.where(mask)[0] is that set in ascending order.  Atom indices   *)
(* are 1-based here (0-based in the code).  Coordinates lie on a planar    *)
(* lattice whose step is half a length unit, so that the bonding cutoff    *)
(* 1.5 and the default distance cutoff 2.5 are the lattice lengths 3 and   *)
(* 5, and every distance comparison is exact on squared lengths.           *)
(***************************************************************************)
EXTENDS Integers, Sequences, FiniteSets, TLC

\* cutoff=1.5 of _get_bonded_hydrogens, in lattice steps
BondCutoff == 3
\* cutoff_dist=2.5 of hbond, in lattice steps
DefaultCutoffDist == 5
\* cutoff_angle=120 of hbond, in degrees
DefaultCutoffAngle == 120

DefaultElements == {"O", "N", "S"}

\* the values of selection1_type that hbond accepts
SelectionTypes == {"both", "donor", "acceptor"}

(***************************************************************************)
(* The atom table: element and res_id per atom, coord per model and atom.  *)
(* is_stack tells an AtomArrayStack from an AtomArray (one model).         *)
(***************************************************************************)
array_length(atoms) == Len(atoms.element)

stack_depth(atoms) == Len(atoms.coord)

AtomIndices(atoms) == 1..array_length(atoms)

\* np.where(mask)[0]: the true positions in ascending order
Where(mask, n) == SelectSeq([i \in 1..n |-> i], LAMBDA i : i \in mask)

\* np.isin(atoms.element, elements)
ElementMask(atoms, elements) ==
    {i \in AtomIndices(atoms) : atoms.element[i] \in elements}

(***************************************************************************)
(* Geometry (biotite.structure.geometry): Euclidean distance and the angle *)
(* at the middle point, compared exactly.                                  *)
(***************************************************************************)
Sq(x) == x * x

Dist2(p, q) == Sq(p[1] - q[1]) + Sq(p[2] - q[2])

\* distance(p, q) <= cutoff, for a cutoff >= 0
DistanceLeq(p, q, cutoff) == Dist2(p, q) <= Sq(cutoff)

\* cos^2 of the angle cutoffs the model uses, as <<numerator, denominator>>
CosSq(deg) ==
    CASE deg = 60  -> <<1, 4>>
      [] deg = 90  -> <<0, 1>>
      [] deg = 120 -> <<1, 4>>
      [] deg = 135 -> <<1, 2>>
      [] deg = 150 -> <<3, 4>>

\* angle(a, b, c) > deg2rad(deg).  A zero-length arm makes the angle NaN,
\* and every comparison with NaN is false.
AngleGreater(a, b, c, deg) ==
    LET u1 == a[1] - b[1]
        u2 == a[2] - b[2]
        v1 == c[1] - b[1]
        v2 == c[2] - b[2]
        dot == u1 * v1 + u2 * v2
        nn == (Sq(u1) + Sq(u2)) * (Sq(v1) + Sq(v2))
        cs == CosSq(deg)
    IN  IF nn = 0 THEN FALSE
        ELSE IF deg <= 90
             THEN dot < 0 \/ cs[2] * Sq(dot) < cs[1] * nn
             ELSE dot < 0 /\ cs[2] * Sq(dot) > cs[1] * nn

(***************************************************************************)
(* _get_bonded_hydrogens(array, donor_mask, cutoff=1.5) on model 0.        *)
(***************************************************************************)
\* candidate_mask = hydrogen_mask, without the residue test
CandidateMaskAnyResidue(atoms, donor_i) ==
    {i \in AtomIndices(atoms) : atoms.element[i] = "H"}

\* candidate_mask = hydrogen_mask & (res_id == res_id[donor_i])
CandidateMask(atoms, donor_i) ==
    {i \in AtomIndices(atoms) :
        /\ atoms.element[i] = "H"
        /\ atoms.res_id[i] = atoms.res_id[donor_i]}

\* np.where(candidate_mask)[0][distances <= cutoff], on the coordinates of
\* model 0
DonorHIndices(atoms, donor_i) ==
    {i \in CandidateMask(atoms, donor_i) :
        DistanceLeq(atoms.coord[1][donor_i], atoms.coord[1][i], BondCutoff)}

\* an association once made is kept
AssignDonorFirstWins(acc, donor_h_indices, donor_i) ==
    [donor_hydrogen_mask |-> acc.donor_hydrogen_mask \cup donor_h_indices,
     associated_donor_indices |->
        [i \in DOMAIN acc.associated_donor_indices |->
            IF i \in donor_h_indices /\ acc.associated_donor_indices[i] = -1
            THEN donor_i
            ELSE acc.associated_donor_indices[i]]]

\* for i in donor_h_indices: associated_donor_indices[i] = donor_i;
\*                           donor_hydrogen_mask[i] = True
AssignDonor(acc, donor_h_indices, donor_i) ==
    [donor_hydrogen_mask |-> acc.donor_hydrogen_mask \cup donor_h_indices,
     associated_donor_indices |->
        [i \in DOMAIN acc.associated_donor_indices |->
            IF i \in donor_h_indices
            THEN donor_i
            ELSE acc.associated_donor_indices[i]]]

\* the loop over donor_indices, from position k on
RECURSIVE BondedLoop(_, _, _, _)
BondedLoop(atoms, donor_indices, k, acc) ==
    IF k > Len(donor_indices) THEN acc
    ELSE BondedLoop(atoms, donor_indices, k + 1,
            AssignDonor(acc, DonorHIndices(atoms, donor_indices[k]),
                        donor_indices[k]))

_get_bonded_hydrogens(atoms, donor_mask) ==
    BondedLoop(atoms, Where(donor_mask, array_length(atoms)), 1,
        [donor_hydrogen_mask |-> {},
         associated_donor_indices |-> [i \in AtomIndices(atoms) |-> -1]])

(***************************************************************************)
(* CellList(coord, cell_size).get_atoms_in_cells(query, as_mask=True):     *)
(* the reference atoms in the cell of a query point or in a neighbouring   *)
(* cell.  The grid starts at the smallest reference coordinate.            *)
(***************************************************************************)
MinOf(S) == CHOOSE x \in S : \A y \in S : x <= y

CellOrigin(coord, ref_mask) ==
    <<MinOf({coord[i][1] : i \in ref_mask}),
      MinOf({coord[i][2] : i \in ref_mask})>>

CellOf(p, origin, cell_size) ==
    <<(p[1] - origin[1]) \div cell_size, (p[2] - origin[2]) \div cell_size>>

Abs(x) == IF x < 0 THEN -x ELSE x

\* the pairs <<query atom, reference atom>> that the cell list of one model
\* reports adjacent
get_atoms_in_cells(coord, ref_mask, cell_size, query_mask) ==
    LET origin == CellOrigin(coord, ref_mask)
        cell(i) == CellOf(coord[i], origin, cell_size)
    IN  {pr \in query_mask \X ref_mask :
            /\ Abs(cell(pr[1])[1] - cell(pr[2])[1]) <= 1
            /\ Abs(cell(pr[1])[2] - cell(pr[2])[2]) <= 1}

(***************************************************************************)
(* _is_hbond(donor, donor_h, acceptor, cutoff_dist, cutoff_angle) for one  *)
(* model: (theta > cutoff_angle_rad) & (dist <= cutoff_dist)               *)
(***************************************************************************)
\* dist > cutoff_dist instead of dist <= cutoff_dist
IsHbondFlipped(coord, t, cutoff_dist, cutoff_angle) ==
    /\ AngleGreater(coord[t[1]], coord[t[2]], coord[t[3]], cutoff_angle)
    /\ ~ DistanceLeq(coord[t[2]], coord[t[3]], cutoff_dist)

_is_hbond(coord, t, cutoff_dist, cutoff_angle) ==
    /\ AngleGreater(coord[t[1]], coord[t[2]], coord[t[3]], cutoff_angle)
    /\ DistanceLeq(coord[t[2]], coord[t[3]], cutoff_dist)

(***************************************************************************)
(* _hbond.  masks holds the mask objects the call can reach, donor_ref and *)
(* acceptor_ref name the two arguments: "&=" writes through to the object, *)
(* and both names may denote one object.                                   *)
(***************************************************************************)
\* donor_mask &= donor_element_mask; acceptor_mask &= acceptor_element_mask
FilterInPlace(masks, donor_ref, acceptor_ref, dem, aem) ==
    LET m1 == [masks EXCEPT ![donor_ref] = @ \cap dem]
    IN  [m1 EXCEPT ![acceptor_ref] = @ \cap aem]

\* possible_bonds, OR-ed over the models, as <<acceptor, hydrogen>> pairs
PossibleBonds(atoms, donor_h_mask, acceptor_mask, cutoff_dist) ==
    UNION {get_atoms_in_cells(atoms.coord[m], donor_h_mask, cutoff_dist,
                              acceptor_mask) : m \in 1..stack_depth(atoms)}

\* np.where(possible_bonds): the true entries of the acceptor x hydrogen
\* matrix in row-major order
WherePairs(possible_bonds, acceptor_i, donor_h_i) ==
    LET nh == Len(donor_h_i)
        all == [k \in 1..(Len(acceptor_i) * nh) |->
                   <<acceptor_i[((k - 1) \div nh) + 1],
                     donor_h_i[((k - 1) % nh) + 1]>>]
    IN  SelectSeq(all, LAMBDA pr : pr \in possible_bonds)

\* triplets = triplets[donor_i != acceptor_i]
RemoveSelfPairs(triplets) == SelectSeq(triplets, LAMBDA t : t[1] # t[3])

\* hbond_mask column of a triplet: the models in which it is a bond
Column(atoms, t, cutoff_dist, cutoff_angle) ==
    {m \in 1..stack_depth(atoms) :
        _is_hbond(atoms.coord[m], t, cutoff_dist, cutoff_angle)}

_hbond(atoms, masks, donor_ref, acceptor_ref, dem, aem, cutoff_dist, cutoff_angle) ==
    LET filtered == FilterInPlace(masks, donor_ref, acceptor_ref, dem, aem)
        donor_mask == filtered[donor_ref]
        acceptor_mask == filtered[acceptor_ref]
        bonded == _get_bonded_hydrogens(atoms, donor_mask)
        donor_h_mask == bonded.donor_hydrogen_mask
        donor_h_i == Where(donor_h_mask, array_length(atoms))
        acceptor_i == Where(acceptor_mask, array_length(atoms))
        pairs == WherePairs(
                    PossibleBonds(atoms, donor_h_mask, acceptor_mask,
                                  cutoff_dist),
                    acceptor_i, donor_h_i)
        built == [k \in 1..Len(pairs) |->
                    <<bonded.associated_donor_indices[pairs[k][2]],
                      pairs[k][2], pairs[k][1]>>]
        triplets == RemoveSelfPairs(built)
        counted == SelectSeq(triplets,
                      LAMBDA t : Column(atoms, t, cutoff_dist,
                                        cutoff_angle) # {})
    IN  IF donor_h_i = <<>> \/ acceptor_i = <<>>
        THEN [triplets |-> <<>>, mask |-> <<>>, masks |-> filtered]
        ELSE [triplets |-> counted,
              mask |-> [k \in 1..Len(counted) |->
                          Column(atoms, counted[k], cutoff_dist,
                                 cutoff_angle)],
              masks |-> filtered]

(***************************************************************************)
(* hbond.  sel holds the caller's two selection vectors; selection1 and    *)
(* selection2 name the vector passed (1 or 2, possibly the same one), or   *)
(* are 0 for None.                                                         *)
(***************************************************************************)
\* selection_combinations, 1-based: 1 = exclusive_selection1,
\* 2 = exclusive_selection2, 3 = overlap_selection
selection_combinations ==
    <<<<1, 2>>, <<1, 3>>, <<2, 1>>, <<2, 3>>, <<3, 1>>, <<3, 2>>, <<3, 3>>>>

\* the three selections of the 'both' branch
Selections(selection1, selection2) ==
    LET overlap_selection == selection1 \cap selection2
    IN  <<selection1 \ overlap_selection,
          selection2 \ overlap_selection,
          overlap_selection>>

\* the loop over the combinations, from position k on; acc.selections are
\* the three mask objects, acc.all_comb the results appended so far
RECURSIVE CombinationLoop(_, _, _, _, _, _, _, _)
CombinationLoop(atoms, combinations, k, acc, dem, aem, cutoff_dist, cutoff_angle) ==
    IF k > Len(combinations) THEN acc
    ELSE LET c == combinations[k]
             r == _hbond(atoms, acc.selections, c[1], c[2], dem, aem,
                         cutoff_dist, cutoff_angle)
         IN  IF acc.selections[c[1]] # {} /\ acc.selections[c[2]] # {}
             THEN CombinationLoop(atoms, combinations, k + 1,
                     [selections |-> r.masks,
                      all_comb |-> Append(acc.all_comb,
                          [combination |-> c, triplets |-> r.triplets,
                           mask |-> r.mask])],
                     dem, aem, cutoff_dist, cutoff_angle)
             ELSE CombinationLoop(atoms, combinations, k + 1, acc,
                     dem, aem, cutoff_dist, cutoff_angle)

\* np.concatenate of the parts named by field
RECURSIVE Concatenate(_, _)
Concatenate(parts, k) ==
    IF k > Len(parts) THEN <<>>
    ELSE parts[k] \o Concatenate(parts, k + 1)

\* selection1 passed as the donor mask whatever selection1_type is
RolesUnswapped(selection1_type, ref1, ref2) == <<ref1, ref2>>

\* the (donor, acceptor) arguments of the single _hbond call of the
\* 'donor' and 'acceptor' branches
Roles(selection1_type, ref1, ref2) ==
    IF selection1_type = "donor" THEN <<ref1, ref2>> ELSE <<ref2, ref1>>

hbond(atoms, sel, selection1, selection2, selection1_type, cutoff_dist, cutoff_angle, donor_elements, acceptor_elements) ==
    LET dem == ElementMask(atoms, donor_elements)
        aem == ElementMask(atoms, acceptor_elements)
        ones == AtomIndices(atoms)
        \* objects 1, 2: the caller's vectors; 3, 4: np.ones for None
        heap == <<sel[1], sel[2], ones, ones>>
        ref1 == IF selection1 = 0 THEN 3 ELSE selection1
        ref2 == IF selection2 = 0 THEN 4 ELSE selection2
        loop == CombinationLoop(atoms, selection_combinations, 1,
                    [selections |-> Selections(heap[ref1], heap[ref2]),
                     all_comb |-> <<>>],
                    dem, aem, cutoff_dist, cutoff_angle)
        roles == Roles(selection1_type, ref1, ref2)
        one == _hbond(atoms, heap, roles[1], roles[2], dem, aem,
                      cutoff_dist, cutoff_angle)
    IN  CASE selection1_type = "both" ->
               IF loop.all_comb = <<>>
               THEN \* np.concatenate of an empty list
                    [status |-> "ValueError", triplets |-> <<>>,
                     mask |-> <<>>, has_mask |-> FALSE, sel |-> sel]
               ELSE [status |-> "ok",
                     triplets |-> Concatenate(
                         [k \in 1..Len(loop.all_comb) |->
                             loop.all_comb[k].triplets], 1),
                     mask |-> IF atoms.is_stack
                              THEN Concatenate(
                                      [k \in 1..Len(loop.all_comb) |->
                                          loop.all_comb[k].mask], 1)
                              ELSE <<>>,
                     has_mask |-> atoms.is_stack, sel |-> sel]
          [] selection1_type \in {"donor", "acceptor"} ->
               [status |-> "ok", triplets |-> one.triplets,
                mask |-> IF atoms.is_stack THEN one.mask ELSE <<>>,
                has_mask |-> atoms.is_stack,
                sel |-> <<one.masks[1], one.masks[2]>>]
          [] OTHER ->
               [status |-> "ValueError", triplets |-> <<>>,
                mask |-> <<>>, has_mask |-> FALSE, sel |-> sel]

(***************************************************************************)
(* hbond_frequency(mask): mask.sum(axis=0)/len(mask).  A mask is its row   *)
(* count and its columns; a frequency is the fraction <<count, rows>>, and *)
(* 0/0 is numpy's nan, which the division returns without raising.         *)
(***************************************************************************)
hbond_frequency(rows, columns) ==
    [status |-> "ok",
     values |-> [k \in 1..Len(columns) |->
                    [num |-> Cardinality(columns[k]), den |-> rows,
                     nan |-> rows = 0]]]

(***************************************************************************)
(* The inputs: atom tables, the caller's selection vectors and the         *)
(* arguments of the calls.                                                 *)
(***************************************************************************)
\* the deepest stack of models among the atom tables
MaxStackDepth == 2

\* the lattice positions of the oxygen in the first model: in line with
\* N-H at 2.0, at exactly 2.5, at exactly 135 degrees, and far away
AcceptorPositions == {<<6, 0>>, <<5, 4>>, <<4, 2>>, <<9, 9>>}

\* where the oxygen is in a later model: bonded or far away
MovedPositions == {<<6, 0>>, <<9, 9>>}

\* the position of the second nitrogen: 1.0 from the H, opposite the first
SecondDonorPositions == {<<4, 0>>}

\* the oxygen's position per model, for every stack depth
Trajectories ==
    UNION {{p \in [1..n -> AcceptorPositions \cup MovedPositions] :
              \A m \in 2..n : p[m] \in MovedPositions} :
           n \in 1..MaxStackDepth}

\* N and its H (1.0 apart) in residue 1 and an O in residue 2 that moves
\* between the models
Table3(is_stack, pO) ==
    [is_stack |-> is_stack,
     element |-> <<"N", "H", "O">>,
     res_id |-> <<1, 1, 2>>,
     coord |-> [m \in 1..Len(pO) |-> <<<<0, 0>>, <<2, 0>>, pO[m]>>]]

\* the same with a second N, in residue res3 at p3, before the O
Table4(is_stack, res3, p3, pO) ==
    [is_stack |-> is_stack,
     element |-> <<"N", "H", "N", "O">>,
     res_id |-> <<1, 1, res3, 2>>,
     coord |-> [m \in 1..Len(pO) |-> <<<<0, 0>>, <<2, 0>>, p3, pO[m]>>]]

SelectionTables ==
    {Table3(is_stack, pO) :
        is_stack \in BOOLEAN,
        pO \in {p \in Trajectories :
                  /\ p[1] = <<6, 0>>
                  /\ \A m \in 2..Len(p) : p[m] = <<9, 9>>}}

GeometryTables ==
    {Table4(is_stack, res3, p3, pO) :
        is_stack \in BOOLEAN, res3 \in {1, 2}, p3 \in SecondDonorPositions,
        pO \in Trajectories}

CutoffDists == {3, DefaultCutoffDist}

CutoffAngles == {DefaultCutoffAngle, 135}

Config(cutoff_dist, cutoff_angle, donor_elements, acceptor_elements) ==
    [cutoff_dist |-> cutoff_dist, cutoff_angle |-> cutoff_angle,
     donor_elements |-> donor_elements,
     acceptor_elements |-> acceptor_elements]

\* the default arguments, and donors and acceptors of different elements
ElementConfigs ==
    {Config(DefaultCutoffDist, DefaultCutoffAngle, DefaultElements,
            DefaultElements),
     Config(DefaultCutoffDist, DefaultCutoffAngle, {"N"}, {"O"})}

CutoffConfigs ==
    {Config(d, a, DefaultElements, DefaultElements) :
        d \in CutoffDists, a \in CutoffAngles}

\* what a call passes as (selection1, selection2): 0 is None, 1 and 2 are
\* the caller's two vectors
SelectionArgs == {<<1, 2>>, <<2, 1>>, <<1, 1>>, <<0, 0>>}

\* the whole table twice, and each selection leaving out one nitrogen
GeometrySelections == {<<1..4, 1..4>>, <<{1, 2, 4}, {2, 3, 4}>>}

VARIABLES atoms, cfg, sel, orig, last

vars == <<atoms, cfg, sel, orig, last>>

NoCall == [op |-> "none"]

Init ==
    /\ atoms \in {t \in SelectionTables : t.is_stack \/ Len(t.coord) = 1}
    /\ cfg \in ElementConfigs
    /\ sel \in (SUBSET AtomIndices(atoms)) \X (SUBSET AtomIndices(atoms))
    /\ orig = sel
    /\ last = NoCall

InitGeometry ==
    /\ atoms \in {t \in GeometryTables : t.is_stack \/ Len(t.coord) = 1}
    /\ cfg \in CutoffConfigs
    /\ sel \in GeometrySelections
    /\ orig = sel
    /\ last = NoCall

\* a call of hbond on the caller's vectors
Hbond(selection1, selection2, selection1_type) ==
    \E r \in {hbond(atoms, sel, selection1, selection2, selection1_type,
                   cfg.cutoff_dist, cfg.cutoff_angle,
                   cfg.donor_elements, cfg.acceptor_elements)} :
        /\ sel' = r.sel
        /\ last' = [op |-> "hbond", selection1 |-> selection1,
                    selection2 |-> selection2,
                    selection1_type |-> selection1_type, pre |-> sel,
                    status |-> r.status, triplets |-> r.triplets,
                    mask |-> r.mask, has_mask |-> r.has_mask]
        /\ UNCHANGED <<atoms, cfg, orig>>

\* mask[:rows], the slice of a mask the caller passes on
FirstRows(mask, rows) == [k \in 1..Len(mask) |-> mask[k] \cap 1..rows]

\* a call of hbond_frequency on the first rows of the mask hbond returned
HbondFrequency(rows) ==
    /\ last.op = "hbond"
    /\ last.status = "ok"
    /\ last.has_mask
    /\ \E r \in {hbond_frequency(rows, FirstRows(last.mask, rows))} :
          last' = [op |-> "hbond_frequency", rows |-> rows,
                   columns |-> FirstRows(last.mask, rows),
                   status |-> r.status, values |-> r.values]
    /\ UNCHANGED <<atoms, cfg, sel, orig>>

Next ==
    \/ \E args \in SelectionArgs, t \in SelectionTypes :
          Hbond(args[1], args[2], t)
    \/ Hbond(1, 2, "other")
    \/ \E rows \in 0..stack_depth(atoms) : HbondFrequency(rows)

Spec == Init /\ [][Next]_vars

SpecGeometry == InitGeometry /\ [][Next]_vars

(***************************************************************************)
(* Properties.  They speak of the hbond call recorded in last: its         *)
(* arguments, the vectors before the call (last.pre) and what it returned. *)
(***************************************************************************)
Range(seq) == {seq[k] : k \in 1..Len(seq)}

IsHbondCall == last.op = "hbond" /\ last.selection1_type \in SelectionTypes

\* the mask a selection argument of the recorded call denoted
ArgMask(l, selection) ==
    IF selection = 0 THEN AtomIndices(atoms) ELSE l.pre[selection]

DonorElementMask == ElementMask(atoms, cfg.donor_elements)

AcceptorElementMask == ElementMask(atoms, cfg.acceptor_elements)

\* the donor and acceptor selection of a 'donor' or 'acceptor' call
DonorSelection(l) ==
    IF l.selection1_type = "donor" THEN ArgMask(l, l.selection1)
    ELSE ArgMask(l, l.selection2)

AcceptorSelection(l) ==
    IF l.selection1_type = "donor" THEN ArgMask(l, l.selection2)
    ELSE ArgMask(l, l.selection1)

\* the triplet is a bond in model m, by the definition of the criterion
ValidIn(m, t) ==
    /\ AngleGreater(atoms.coord[m][t[1]], atoms.coord[m][t[2]],
                    atoms.coord[m][t[3]], cfg.cutoff_angle)
    /\ Dist2(atoms.coord[m][t[2]], atoms.coord[m][t[3]])
          <= cfg.cutoff_dist * cfg.cutoff_dist

\* the donors of a mask that claim hydrogen h: same residue, and within
\* 1.5 in the first model
Claimants(h, donor_mask) ==
    {d \in donor_mask :
        /\ atoms.element[h] = "H"
        /\ atoms.res_id[d] = atoms.res_id[h]
        /\ Dist2(atoms.coord[1][d], atoms.coord[1][h])
              <= BondCutoff * BondCutoff}

MaxOf(S) == CHOOSE x \in S : \A y \in S : y <= x

\* the three groups computed afresh from the selections of the call
FreshGroups(l) ==
    LET s1 == ArgMask(l, l.selection1)
        s2 == ArgMask(l, l.selection2)
    IN  <<s1 \ s2, s2 \ s1, s1 \cap s2>>

\* all ordered pairs of groups except (excl1, excl1) and (excl2, excl2)
Pairings == ((1..3) \X (1..3)) \ {<<1, 1>>, <<2, 2>>}

\* what a detector call of its own returns for a pairing of fresh groups
StandAlone(l, c) ==
    _hbond(atoms, FreshGroups(l), c[1], c[2], DonorElementMask,
           AcceptorElementMask, cfg.cutoff_dist, cfg.cutoff_angle)

\* C1: in 'both' mode every triplet that a stand-alone detector call returns
\* for one of the pairings of the fresh groups {excl1, excl2, overlap} is in
\* the merged result of hbond, whatever the donor and acceptor elements.
C1_BothCoversEveryPairing ==
    (IsHbondCall /\ last.selection1_type = "both" /\ last.status = "ok")
    => \A c \in Pairings :
          Range(StandAlone(last, c).triplets) \subseteq Range(last.triplets)

\* hbond found no donor or no acceptor after selection and element filtering
NoDonorOrNoAcceptor(l) ==
    LET s1 == ArgMask(l, l.selection1)
        s2 == ArgMask(l, l.selection2)
    IN  IF l.selection1_type = "both"
        THEN \/ s1 = {}
             \/ s2 = {}
             \/ (s1 \cup s2) \cap DonorElementMask = {}
             \/ (s1 \cup s2) \cap AcceptorElementMask = {}
        ELSE \/ DonorSelection(l) \cap DonorElementMask = {}
             \/ AcceptorSelection(l) \cap AcceptorElementMask = {}

\* C2: with zero donors or zero acceptors after selection and element
\* filtering (an all-false selection included), hbond returns an empty
\* result and does not raise, for every selection1_type.
C2_EmptyResultNeverRaises ==
    (IsHbondCall /\ NoDonorOrNoAcceptor(last))
    => /\ last.status = "ok"
       /\ last.triplets = <<>>
       /\ last.mask = <<>>

\* C3: hbond leaves the caller's selection vectors as they were before the
\* first call.
C3_SelectionsUnchanged == sel = orig

\* C4: every returned triplet has donor # acceptor, and its hydrogen is in
\* the donor's residue, in every selection1_type.
C4_DonorNotAcceptorSameResidue ==
    IsHbondCall
    => \A t \in Range(last.triplets) :
          /\ t[1] # t[3]
          /\ atoms.res_id[t[2]] = atoms.res_id[t[1]]

\* an atom of both selections, of a donor and acceptor element, is in a
\* triplet of a 'both' call with another atom
C4_Witness ==
    /\ IsHbondCall
    /\ last.selection1_type = "both"
    /\ \E i \in ArgMask(last, last.selection1)
                  \cap ArgMask(last, last.selection2) :
          /\ i \in DonorElementMask \cap AcceptorElementMask
          /\ \E t \in Range(last.triplets) :
                (t[1] = i \/ t[3] = i) /\ t[1] # t[3]

\* C5: hbond_frequency on a mask of zero models fails with InvalidArgument.
C5_ZeroModelsRejected ==
    (last.op = "hbond_frequency" /\ last.rows = 0)
    => last.status = "InvalidArgument"

\* the donor and acceptor mask one detector call works on: the selections
\* after both element filters have been written to the mask objects
EffectiveMasks(l) ==
    LET ref1 == IF l.selection1 = 0 THEN 3 ELSE l.selection1
        ref2 == IF l.selection2 = 0 THEN 4 ELSE l.selection2
        roles == Roles(l.selection1_type, ref1, ref2)
        masks == FilterInPlace(<<l.pre[1], l.pre[2], AtomIndices(atoms),
                                 AtomIndices(atoms)>>, roles[1], roles[2],
                               DonorElementMask, AcceptorElementMask)
    IN  <<masks[roles[1]], masks[roles[2]]>>

EffectiveDonorMask(l) == EffectiveMasks(l)[1]

\* in every model the cell list reports each acceptor within cutoff_dist of
\* a donor hydrogen
BroadPhaseIsSuperset(l) ==
    LET acceptor_mask == EffectiveMasks(l)[2]
        donor_h_mask == _get_bonded_hydrogens(atoms, EffectiveDonorMask(l))
                           .donor_hydrogen_mask
    IN  \A m \in 1..stack_depth(atoms), h \in donor_h_mask,
           a \in acceptor_mask :
           Dist2(atoms.coord[m][h], atoms.coord[m][a])
              <= cfg.cutoff_dist * cfg.cutoff_dist
           => <<a, h>> \in get_atoms_in_cells(atoms.coord[m], donor_h_mask,
                                             cfg.cutoff_dist, acceptor_mask)

\* the number of triplets of the recorded call under other cutoffs
CountUnder(l, cutoff_dist, cutoff_angle) ==
    Len(hbond(atoms, l.pre, l.selection1, l.selection2, l.selection1_type,
              cutoff_dist, cutoff_angle, cfg.donor_elements,
              cfg.acceptor_elements).triplets)

\* C6: with everything else the same, a higher cutoff_angle or a lower
\* cutoff_dist never gives more triplets; the broad phase of a detector
\* call reports every acceptor within cutoff_dist of a donor hydrogen.
C6_Monotone ==
    IsHbondCall
    => /\ \A d \in CutoffDists, a \in CutoffAngles :
             (d <= cfg.cutoff_dist /\ a >= cfg.cutoff_angle)
             => CountUnder(last, d, a) <= Len(last.triplets)
       /\ last.selection1_type \in {"donor", "acceptor"}
          => BroadPhaseIsSuperset(last)

\* a call whose result shrinks under a stricter cutoff
C6_Witness ==
    /\ IsHbondCall
    /\ \E d \in CutoffDists, a \in CutoffAngles :
          /\ d <= cfg.cutoff_dist
          /\ a >= cfg.cutoff_angle
          /\ CountUnder(last, d, a) < Len(last.triplets)

Opposite(selection1_type) ==
    IF selection1_type = "donor" THEN "acceptor" ELSE "donor"

\* the recorded call l with the selections exchanged and the other type
Exchanged(l) ==
    hbond(atoms, l.pre, l.selection2, l.selection1,
          Opposite(l.selection1_type), cfg.cutoff_dist, cfg.cutoff_angle,
          cfg.donor_elements, cfg.acceptor_elements)

\* call b is call a with the selections exchanged and the other type
ExchangedCalls(a, b) ==
    /\ a.op = "hbond"
    /\ b.op = "hbond"
    /\ a.selection1_type \in {"donor", "acceptor"}
    /\ b.selection1_type = Opposite(a.selection1_type)
    /\ b.selection1 = a.selection2
    /\ b.selection2 = a.selection1

\* C7: 'donor' with (S1, S2) and 'acceptor' with (S2, S1) return the same
\* triplets and mask: on the same vectors, and when the second call follows
\* the first on the vectors the first has left.
C7_SelectionSymmetry ==
    [][/\ (last'.op = "hbond"
           /\ last'.selection1_type \in {"donor", "acceptor"})
          => /\ Exchanged(last').triplets = last'.triplets
             /\ Exchanged(last').mask = last'.mask
       /\ ExchangedCalls(last, last')
          => /\ last'.triplets = last.triplets
             /\ last'.mask = last.mask]_vars

\* an 'acceptor' call that finds a bond on the vectors a 'donor' call with
\* the exchanged selections has left, which are not the original ones
C7_Witness ==
    /\ IsHbondCall
    /\ last.selection1_type = "acceptor"
    /\ last.selection1 = 2
    /\ last.selection2 = 1
    /\ last.pre # orig
    /\ last.pre = <<orig[1] \cap DonorElementMask,
                    orig[2] \cap AcceptorElementMask>>
    /\ last.triplets # <<>>

\* the reference result of one detector call, without the spatial index
Reference(donor_mask, acceptor_mask) ==
    {t \in donor_mask \X AtomIndices(atoms) \X acceptor_mask :
        /\ Claimants(t[2], donor_mask) # {}
        /\ t[1] = _get_bonded_hydrogens(atoms, donor_mask)
                     .associated_donor_indices[t[2]]
        /\ t[1] # t[3]
        /\ \E m \in 1..stack_depth(atoms) : ValidIn(m, t)}

\* C8: a 'donor' or 'acceptor' call is one detector call; it returns each
\* triplet of the reference result for the element-filtered donor and
\* acceptor selections once, and mask entry (m, t) is true iff triplet t
\* meets both cutoffs in model m.
C8_DetectorMatchesReference ==
    (IsHbondCall /\ last.selection1_type \in {"donor", "acceptor"})
    => /\ Range(last.triplets)
             = Reference(DonorSelection(last) \cap DonorElementMask,
                         AcceptorSelection(last) \cap AcceptorElementMask)
       /\ \A j, k \in 1..Len(last.triplets) :
             last.triplets[j] = last.triplets[k] => j = k
       /\ last.has_mask
          => /\ Len(last.mask) = Len(last.triplets)
             /\ \A k \in 1..Len(last.mask) :
                   /\ last.mask[k] # {}
                   /\ last.mask[k]
                         = {m \in 1..stack_depth(atoms) :
                               ValidIn(m, last.triplets[k])}

\* the combinations with the one at position k evaluated first
MoveFirst(k) ==
    <<selection_combinations[k]>>
    \o SelectSeq(selection_combinations,
                 LAMBDA c : c # selection_combinations[k])

Reverse(seq) == [k \in 1..Len(seq) |-> seq[Len(seq) + 1 - k]]

EvaluationOrders ==
    {MoveFirst(k) : k \in 1..Len(selection_combinations)}
    \cup {Reverse(selection_combinations)}

\* the 'both' loop of the recorded call run over the combinations in order
LoopIn(l, order) ==
    CombinationLoop(atoms, order, 1,
        [selections |-> FreshGroups(l), all_comb |-> <<>>],
        DonorElementMask, AcceptorElementMask,
        cfg.cutoff_dist, cfg.cutoff_angle).all_comb

\* the results of a loop put in pairing-enumeration order
InEnumerationOrder(all_comb, field) ==
    Concatenate(
        [k \in 1..Len(selection_combinations) |->
            IF \E j \in 1..Len(all_comb) :
                  all_comb[j].combination = selection_combinations[k]
            THEN (CHOOSE e \in Range(all_comb) :
                     e.combination = selection_combinations[k])[field]
            ELSE <<>>], 1)

\* C9: in 'both' mode the pairings may be evaluated in any order: put in
\* pairing-enumeration order, their triplets and masks are what hbond
\* returns.
C9_PairingsOrderIndependent ==
    (IsHbondCall /\ last.selection1_type = "both" /\ last.status = "ok"
     /\ last.has_mask)
    => \A order \in EvaluationOrders :
          /\ InEnumerationOrder(LoopIn(last, order), "triplets")
                = last.triplets
          /\ InEnumerationOrder(LoopIn(last, order), "mask") = last.mask

\* the resolver marks the hydrogens that a donor of the mask claims, and
\* associates each with the last claimant in atom order
ResolverLastWins(donor_mask) ==
    LET bonded == _get_bonded_hydrogens(atoms, donor_mask)
    IN  \A h \in AtomIndices(atoms) :
           /\ h \in bonded.donor_hydrogen_mask
                 <=> Claimants(h, donor_mask) # {}
           /\ h \in bonded.donor_hydrogen_mask
                 => bonded.associated_donor_indices[h]
                       = MaxOf(Claimants(h, donor_mask))

OneDonorPerHydrogen(triplets) ==
    \A t1, t2 \in Range(triplets) : t1[2] = t2[2] => t1[1] = t2[1]

====
